---- MODULE Spec2Model ----
(***************************************************************************)
(* Model of the METAR/TAF group decoder of src/command/common.ts: the      *)
(* eight commands (canParse / execute), the shared makeWind rule, and      *)
(* CommandSupplier.get.  A JavaScript string is a sequence of one-char     *)
(* strings; an optional value (undefined or a value) is a sequence of      *)
(* length 0 or 1.                                                          *)
(***************************************************************************)
EXTENDS Integers, Sequences, FiniteSets, TLC

VARIABLES container, commands, op, cmd, token, result, calls, varied

vars == <<container, commands, op, cmd, token, result, calls, varied>>

\* Number of calls (get or execute) made on one accumulator in one run.
MaxCalls == 3

-----------------------------------------------------------------------------
(* JavaScript values *)

\* undefined
None == <<>>

Some(x) == <<x>>

\* The value held by a present optional.
Val(o) == o[1]

\* NaN, the result of unary + on a string that is not a numeric literal.
\* Every number the code produces otherwise is >= 0.
NaN == -1

DigitSeq == <<"0", "1", "2", "3", "4", "5", "6", "7", "8", "9">>

\* \d
Digit == {DigitSeq[i] : i \in 1..10}

\* [A-Z]
Upper == {"A", "B", "C", "D", "E", "F", "G", "H", "I", "J", "K", "L", "M",
          "N", "O", "P", "Q", "R", "S", "T", "U", "V", "W", "X", "Y", "Z"}

\* [a-z]
Lower == {"a", "b", "c", "d", "e", "f", "g", "h", "i", "j", "k", "l", "m",
          "n", "o", "p", "q", "r", "s", "t", "u", "v", "w", "x", "y", "z"}

\* \w
Word == Digit \cup Upper \cup Lower \cup {"_"}

\* \s (the whitespace characters the token pools use)
Space == {" ", "\t"}

AllIn(s, S) == \A i \in 1..Len(s) : s[i] \in S

\* s.slice(i-1, j) clipped to the string, 1-based inclusive.
Slice(s, i, j) == SubSeq(s, i, IF j > Len(s) THEN Len(s) ELSE j)

\* The literal lit occurs in s at position p.
LitAt(s, p, lit) == Len(s) >= p + Len(lit) - 1 /\ SubSeq(s, p, p + Len(lit) - 1) = lit

\* n characters of class S occur in s at position p.
ClassAt(s, p, n, S) == Len(s) >= p + n - 1 /\ AllIn(SubSeq(s, p, p + n - 1), S)

DigitVal(c) == CHOOSE i \in 0..9 : DigitSeq[i + 1] = c

RECURSIVE DecimalValue(_)
DecimalValue(s) ==
  IF s = <<>> THEN 0
  ELSE 10 * DecimalValue(SubSeq(s, 1, Len(s) - 1)) + DigitVal(s[Len(s)])

\* Unary + on a matched group: the decimal value of a digit string, NaN for
\* undefined and for a non-numeric string.  (Exponent and radix literals such
\* as "1e2" or "0x1", which \w{3} also admits, are not in the token pools.)
ToNumber(o) ==
  IF o = None THEN NaN
  ELSE IF Val(o) # <<>> /\ AllIn(Val(o), Digit) THEN DecimalValue(Val(o))
  ELSE NaN

\* 100 * x in JavaScript arithmetic.
Times100(x) == IF x = NaN THEN NaN ELSE 100 * x

\* x || undefined for a number x: 0 and NaN are falsy.
OrUndefined(x) == IF x = NaN \/ x = 0 THEN None ELSE Some(x)

-----------------------------------------------------------------------------
(* Literals of the grammars *)

VRB == <<"V", "R", "B">>
KT == <<"K", "T">>
MPS == <<"M", "P", "S">>
KMH == <<"K", "M", "/", "H">>
NDV == <<"N", "D", "V">>
SM == <<"S", "M">>

\* (KT|MPS|KM\/H) tried at position p: the unit matched, or undefined.
UnitAt(s, p) ==
  IF LitAt(s, p, KT) THEN Some(KT)
  ELSE IF LitAt(s, p, MPS) THEN Some(MPS)
  ELSE IF LitAt(s, p, KMH) THEN Some(KMH)
  ELSE None

-----------------------------------------------------------------------------
(* External collaborators (commons/converter, model/enum) *)

\* converter.degreesToCardinal: an uninterpreted function of its argument.
degreesToCardinal(direction) == [cardinalOf |-> direction]

\* converter.convertVisibility: an uninterpreted function of its argument.
convertVisibility(input) == [converted |-> TRUE, text |-> input]

\* A distance stored as the raw token (statute miles form).
RawDistance(str) == [converted |-> FALSE, text |-> str]

\* Keys of the CloudQuantity enumeration.
CloudQuantity == {<<"S", "K", "C">>, <<"F", "E", "W">>, <<"S", "C", "T">>,
                  <<"B", "K", "N">>, <<"O", "V", "C">>, <<"N", "S", "C">>}

\* Keys of the CloudType enumeration.
CloudType == {<<"C", "B">>, <<"T", "C", "U">>, <<"C", "I">>, <<"C", "C">>,
              <<"C", "S">>, <<"A", "C">>, <<"S", "T">>, <<"C", "U">>,
              <<"A", "S">>, <<"N", "S">>, <<"S", "C">>}

\* E[key as E] for a string enum E: the member, or undefined.
EnumLookup(E, key) == IF key # None /\ Val(key) \in E THEN key ELSE None

-----------------------------------------------------------------------------
(* makeWind *)

makeWind_noDefaultUnit(direction, speed, gust, unit) ==
  [speed |-> ToNumber(Some(speed)),
   direction |-> degreesToCardinal(direction),
   degrees |-> IF direction # VRB THEN Some(ToNumber(Some(direction))) ELSE None,
   gust |-> IF gust # None /\ Val(gust) # <<>> THEN Some(ToNumber(gust)) ELSE None,
   unit |-> IF unit # None THEN Val(unit) ELSE <<>>,
   minVariation |-> None,
   maxVariation |-> None]

\* direction and speed are strings, gust and unit are optional strings.  The
\* object has no minVariation / maxVariation property: both read undefined.
makeWind(direction, speed, gust, unit) ==
  [speed |-> ToNumber(Some(speed)),
   direction |-> degreesToCardinal(direction),
   degrees |-> IF direction # VRB THEN Some(ToNumber(Some(direction))) ELSE None,
   gust |-> IF gust # None /\ Val(gust) # <<>> THEN Some(ToNumber(gust)) ELSE None,
   unit |-> IF unit # None /\ Val(unit) # <<>> THEN Val(unit) ELSE KT,
   minVariation |-> None,
   maxVariation |-> None]

-----------------------------------------------------------------------------
(* The accumulator (IAbstractWeatherContainer) *)

EmptyContainer ==
  [wind |-> None, windShear |-> None, visibility |-> None,
   clouds |-> <<>>, verticalVisibility |-> None]

\* What one call of execute leaves: the accumulator, and "true", "false" or
\* the name of the error thrown.
Outcome(c, r) == [container |-> c, result |-> r]

-----------------------------------------------------------------------------
(* CloudCommand *)

\* /^([A-Z]{3})(\d{3})?([A-Z]{2,3})?$/ : the groups of the match, or undefined.
cloudRegex(s) ==
  IF ClassAt(s, 1, 3, Upper)
  THEN LET hasHeight == ClassAt(s, 4, 3, Digit)
           p == IF hasHeight THEN 7 ELSE 4
           rest == SubSeq(s, p, Len(s))
           m1 == Some(SubSeq(s, 1, 3))
           m2 == IF hasHeight THEN Some(SubSeq(s, 4, 6)) ELSE None
       IN IF rest = <<>> THEN Some(<<m1, m2, None>>)
          ELSE IF Len(rest) \in 2..3 /\ AllIn(rest, Upper) THEN Some(<<m1, m2, Some(rest)>>)
          ELSE None
  ELSE None

CloudCommand_parse_rawHeight(cloudString) ==
  LET mm == cloudRegex(cloudString) IN
  IF mm = None THEN None
  ELSE LET m == Val(mm)
           quantity == EnumLookup(CloudQuantity, m[1])
       IN IF quantity = None THEN None
          ELSE Some([quantity |-> quantity,
                     height |-> OrUndefined(ToNumber(m[2])),
                     type |-> EnumLookup(CloudType, m[3])])

\* The cloud parsed from the string, or undefined.
CloudCommand_parse(cloudString) ==
  LET mm == cloudRegex(cloudString) IN
  IF mm = None THEN None
  ELSE LET m == Val(mm)
           quantity == EnumLookup(CloudQuantity, m[1])
           height == OrUndefined(Times100(ToNumber(m[2])))
           type == EnumLookup(CloudType, m[3])
       IN IF quantity = None THEN None
          ELSE Some([quantity |-> quantity, height |-> height, type |-> type])

CloudCommand_execute(c, cloudString) ==
  LET cloud == CloudCommand_parse(cloudString) IN
  IF cloud # None
  THEN Outcome([c EXCEPT !.clouds = Append(@, Val(cloud))], "true")
  ELSE Outcome(c, "false")

CloudCommand_canParse_knownOnly(cloudString) ==
  cloudRegex(cloudString) # None
  /\ Val(cloudRegex(cloudString))[1] # None
  /\ Val(Val(cloudRegex(cloudString))[1]) \in CloudQuantity

CloudCommand_canParse(cloudString) == cloudRegex(cloudString) # None

-----------------------------------------------------------------------------
(* MainVisibilityCommand *)

\* /^(\d{4})(|NDV)$/
mainVisibilityRegex(s) ==
  IF ClassAt(s, 1, 4, Digit) /\ Len(s) = 4
  THEN Some(<<Some(SubSeq(s, 1, 4)), Some(<<>>)>>)
  ELSE IF ClassAt(s, 1, 4, Digit) /\ Len(s) = 7 /\ LitAt(s, 5, NDV)
  THEN Some(<<Some(SubSeq(s, 1, 4)), Some(NDV)>>)
  ELSE None

MainVisibilityCommand_canParse(visibilityString) ==
  mainVisibilityRegex(visibilityString) # None

MainVisibilityCommand_execute(c, visibilityString) ==
  LET matches == mainVisibilityRegex(visibilityString) IN
  IF matches = None THEN Outcome(c, "false")
  ELSE LET distance == convertVisibility(Val(Val(matches)[1]))
           created == IF c.visibility = None
                      THEN [distance |-> distance, minDistance |-> None, minDirection |-> None]
                      ELSE Val(c.visibility)
       IN Outcome([c EXCEPT !.visibility = Some([created EXCEPT !.distance = distance])],
                  "true")

-----------------------------------------------------------------------------
(* WindCommand *)

\* /^(VRB|\d{3})(\d{2})G?(\d{2})?(KT|MPS|KM\/H)?/  (no end anchor: every part
\* after the speed is optional, so the greedy choices are the match).
windRegex(s) ==
  IF (LitAt(s, 1, VRB) \/ ClassAt(s, 1, 3, Digit)) /\ ClassAt(s, 4, 2, Digit)
  THEN LET p1 == IF LitAt(s, 6, <<"G">>) THEN 7 ELSE 6
           hasGust == ClassAt(s, p1, 2, Digit)
           p2 == IF hasGust THEN p1 + 2 ELSE p1
       IN Some(<<Some(SubSeq(s, 1, 3)), Some(SubSeq(s, 4, 5)),
                 IF hasGust THEN Some(SubSeq(s, p1, p1 + 1)) ELSE None,
                 UnitAt(s, p2)>>)
  ELSE None

WindCommand_canParse(windString) == windRegex(windString) # None

\* The wind parsed, or undefined where the code throws UnexpectedParseError.
WindCommand_parseWind(windString) ==
  LET matches == windRegex(windString) IN
  IF matches = None THEN None
  ELSE LET m == Val(matches) IN Some(makeWind(Val(m[1]), Val(m[2]), m[3], m[4]))

WindCommand_execute_keepsVariation(c, windString) ==
  LET wind == WindCommand_parseWind(windString) IN
  IF wind = None THEN Outcome(c, "UnexpectedParseError")
  ELSE IF c.wind = None THEN Outcome([c EXCEPT !.wind = wind], "true")
  ELSE Outcome([c EXCEPT !.wind =
                  Some([Val(wind) EXCEPT !.minVariation = Val(c.wind).minVariation,
                                         !.maxVariation = Val(c.wind).maxVariation])],
               "true")

WindCommand_execute(c, windString) ==
  LET wind == WindCommand_parseWind(windString) IN
  IF wind = None THEN Outcome(c, "UnexpectedParseError")
  ELSE Outcome([c EXCEPT !.wind = wind], "true")

-----------------------------------------------------------------------------
(* WindVariationCommand *)

\* /^(\d{3})V(\d{3})/
windVariationRegex(s) ==
  IF ClassAt(s, 1, 3, Digit) /\ LitAt(s, 4, <<"V">>) /\ ClassAt(s, 5, 3, Digit)
  THEN Some(<<Some(SubSeq(s, 1, 3)), Some(SubSeq(s, 5, 7))>>)
  ELSE None

WindVariationCommand_canParse(windString) == windVariationRegex(windString) # None

WindVariationCommand_parseWindVariation_swapped(wind, windString) ==
  LET matches == windVariationRegex(windString) IN
  IF matches = None THEN None
  ELSE Some([wind EXCEPT !.minVariation = Some(ToNumber(Val(matches)[2])),
                         !.maxVariation = Some(ToNumber(Val(matches)[1]))])

\* The wind with its variation set, or undefined where the code throws
\* UnexpectedParseError.
WindVariationCommand_parseWindVariation(wind, windString) ==
  LET matches == windVariationRegex(windString) IN
  IF matches = None THEN None
  ELSE Some([wind EXCEPT !.minVariation = Some(ToNumber(Val(matches)[1])),
                         !.maxVariation = Some(ToNumber(Val(matches)[2]))])

WindVariationCommand_execute(c, windString) ==
  IF c.wind = None THEN Outcome(c, "InvalidWeatherStatementError")
  ELSE LET wind == WindVariationCommand_parseWindVariation(Val(c.wind), windString) IN
       IF wind = None THEN Outcome(c, "UnexpectedParseError")
       ELSE Outcome([c EXCEPT !.wind = wind], "true")

-----------------------------------------------------------------------------
(* WindShearCommand *)

\* /^WS(\d{3})\/(\w{3})(\d{2})G?(\d{2})?(KT|MPS|KM\/H)/  (the unit is not
\* optional; no backtracking of G? or of the gust group can make it match,
\* since a unit never starts with G or a digit).
windShearRegex(s) ==
  IF LitAt(s, 1, <<"W", "S">>) /\ ClassAt(s, 3, 3, Digit) /\ LitAt(s, 6, <<"/">>)
     /\ ClassAt(s, 7, 3, Word) /\ ClassAt(s, 10, 2, Digit)
  THEN LET p1 == IF LitAt(s, 12, <<"G">>) THEN 13 ELSE 12
           hasGust == ClassAt(s, p1, 2, Digit)
           p2 == IF hasGust THEN p1 + 2 ELSE p1
       IN IF UnitAt(s, p2) = None THEN None
          ELSE Some(<<Some(SubSeq(s, 3, 5)), Some(SubSeq(s, 7, 9)), Some(SubSeq(s, 10, 11)),
                      IF hasGust THEN Some(SubSeq(s, p1, p1 + 1)) ELSE None,
                      UnitAt(s, p2)>>)
  ELSE None

WindShearCommand_canParse(windString) == windShearRegex(windString) # None

\* The wind shear parsed, or undefined where the code throws
\* UnexpectedParseError.
WindShearCommand_parseWindShear(windString) ==
  LET matches == windShearRegex(windString) IN
  IF matches = None THEN None
  ELSE LET m == Val(matches)
           w == makeWind(Val(m[2]), Val(m[3]), m[4], m[5])
       IN Some([speed |-> w.speed, direction |-> w.direction, degrees |-> w.degrees,
                gust |-> w.gust, unit |-> w.unit, minVariation |-> w.minVariation,
                maxVariation |-> w.maxVariation,
                height |-> Times100(ToNumber(m[1]))])

WindShearCommand_execute(c, windString) ==
  LET shear == WindShearCommand_parseWindShear(windString) IN
  IF shear = None THEN Outcome(c, "UnexpectedParseError")
  ELSE Outcome([c EXCEPT !.windShear = shear], "true")

-----------------------------------------------------------------------------
(* VerticalVisibilityCommand *)

\* /^VV(\d{3})$/
verticalVisibilityRegex(s) ==
  IF LitAt(s, 1, <<"V", "V">>) /\ ClassAt(s, 3, 3, Digit) /\ Len(s) = 5
  THEN Some(<<Some(SubSeq(s, 3, 5))>>)
  ELSE None

VerticalVisibilityCommand_canParse(windString) == verticalVisibilityRegex(windString) # None

VerticalVisibilityCommand_execute(c, visibilityString) ==
  LET matches == verticalVisibilityRegex(visibilityString) IN
  IF matches = None THEN Outcome(c, "UnexpectedParseError")
  ELSE Outcome([c EXCEPT !.verticalVisibility =
                  Some(Times100(ToNumber(Val(matches)[1])))], "true")

-----------------------------------------------------------------------------
(* MinimalVisibilityCommand *)

\* /^(\d{4}[a-z])$/
minimalVisibilityRegex(s) ==
  IF ClassAt(s, 1, 4, Digit) /\ ClassAt(s, 5, 1, Lower) /\ Len(s) = 5
  THEN Some(<<Some(s)>>)
  ELSE None

MinimalVisibilityCommand_canParse(windString) == minimalVisibilityRegex(windString) # None

MinimalVisibilityCommand_execute_createsVisibility(c, visibilityString) ==
  LET matches == minimalVisibilityRegex(visibilityString) IN
  IF matches = None THEN Outcome(c, "UnexpectedParseError")
  ELSE LET m1 == Val(Val(matches)[1])
           vis == IF c.visibility = None
                  THEN [distance |-> RawDistance(<<>>), minDistance |-> None,
                        minDirection |-> None]
                  ELSE Val(c.visibility)
           written == [c EXCEPT !.visibility =
                         Some([vis EXCEPT !.minDistance = Some(ToNumber(Some(Slice(m1, 1, 4)))),
                                          !.minDirection = Some(m1[5])])]
       IN IF c.visibility = None THEN Outcome(written, "UnexpectedParseError")
          ELSE Outcome(written, "true")

MinimalVisibilityCommand_execute(c, visibilityString) ==
  LET matches == minimalVisibilityRegex(visibilityString) IN
  IF matches = None THEN Outcome(c, "UnexpectedParseError")
  ELSE IF c.visibility = None THEN Outcome(c, "UnexpectedParseError")
  ELSE LET m1 == Val(Val(matches)[1]) IN
       Outcome([c EXCEPT !.visibility =
                  Some([Val(c.visibility) EXCEPT
                          !.minDistance = Some(ToNumber(Some(Slice(m1, 1, 4)))),
                          !.minDirection = Some(m1[5])])], "true")

-----------------------------------------------------------------------------
(* MainVisibilityNauticalMilesCommand *)

\* /^(\d)*(\s)?((\d\/\d)?SM)$/ : whether the string matches.  Of the splits
\* the backtracking matcher tries, the fraction must be taken when the
\* string ends in digit/digit SM, since "/" fits nowhere else.
nauticalMilesRegex(s) ==
  /\ Len(s) >= 2
  /\ LitAt(s, Len(s) - 1, SM)
  /\ LET r == SubSeq(s, 1, Len(s) - 2)
         hasFraction == /\ Len(r) >= 3
                        /\ r[Len(r) - 2] \in Digit
                        /\ r[Len(r) - 1] = "/"
                        /\ r[Len(r)] \in Digit
         lead == IF hasFraction THEN SubSeq(r, 1, Len(r) - 3) ELSE r
     IN \/ AllIn(lead, Digit)
        \/ /\ lead # <<>>
           /\ lead[Len(lead)] \in Space
           /\ AllIn(SubSeq(lead, 1, Len(lead) - 1), Digit)

MainVisibilityNauticalMilesCommand_canParse(windString) == nauticalMilesRegex(windString)

MainVisibilityNauticalMilesCommand_execute(c, visibilityString) ==
  LET created == IF c.visibility = None
                 THEN [distance |-> RawDistance(visibilityString), minDistance |-> None,
                       minDirection |-> None]
                 ELSE Val(c.visibility)
  IN Outcome([c EXCEPT !.visibility =
                Some([created EXCEPT !.distance = RawDistance(visibilityString)])], "true")

-----------------------------------------------------------------------------
(* CommandSupplier *)

\* #commands
Commands ==
  <<"WindShearCommand", "WindCommand", "WindVariationCommand", "MainVisibilityCommand",
    "MainVisibilityNauticalMilesCommand", "MinimalVisibilityCommand",
    "VerticalVisibilityCommand", "CloudCommand">>

\* command.canParse(input), dispatched on the command's class.
canParse(command, input) ==
  CASE command = "WindShearCommand" -> WindShearCommand_canParse(input)
    [] command = "WindCommand" -> WindCommand_canParse(input)
    [] command = "WindVariationCommand" -> WindVariationCommand_canParse(input)
    [] command = "MainVisibilityCommand" -> MainVisibilityCommand_canParse(input)
    [] command = "MainVisibilityNauticalMilesCommand" ->
         MainVisibilityNauticalMilesCommand_canParse(input)
    [] command = "MinimalVisibilityCommand" -> MinimalVisibilityCommand_canParse(input)
    [] command = "VerticalVisibilityCommand" -> VerticalVisibilityCommand_canParse(input)
    [] command = "CloudCommand" -> CloudCommand_canParse(input)

RECURSIVE getLoop_lastMatch(_, _, _)
getLoop_lastMatch(cmds, input, i) ==
  IF i < 1 THEN "undefined"
  ELSE IF canParse(cmds[i], input) THEN cmds[i]
  ELSE getLoop_lastMatch(cmds, input, i - 1)

get_lastMatch(cmds, input) == getLoop_lastMatch(cmds, input, Len(cmds))

\* The for loop of get from index i (1-based): the first command that can
\* parse the input, "undefined" when the loop falls through.
RECURSIVE getLoop(_, _, _)
getLoop(cmds, input, i) ==
  IF i > Len(cmds) THEN "undefined"
  ELSE IF canParse(cmds[i], input) THEN cmds[i]
  ELSE getLoop(cmds, input, i + 1)

get(cmds, input) == getLoop(cmds, input, 1)

-----------------------------------------------------------------------------
(* Inputs: the tokens a caller hands to get and execute *)

D240 == <<"2", "4", "0">>
D350 == <<"3", "5", "0">>
D999 == <<"9", "9", "9">>
S15 == <<"1", "5">>
S02 == <<"0", "2">>
G25 == <<"G", "2", "5">>
G10 == <<"G", "1", "0">>
WS020 == <<"W", "S", "0", "2", "0", "/">>

\* "24015G25KT" "VRB02KT" "24015" "24015G10KT" "99902MPS"
WindTokens ==
  {D240 \o S15 \o G25 \o KT, VRB \o S02 \o KT, D240 \o S15,
   D240 \o S15 \o G10 \o KT, D999 \o S02 \o MPS}

\* "WS020/24015G25KT" "WS020/24015" "WS020/ABC15KT"
WindShearTokens ==
  {WS020 \o D240 \o S15 \o G25 \o KT, WS020 \o D240 \o S15,
   WS020 \o <<"A", "B", "C">> \o S15 \o KT}

\* "350V050"
WindVariationTokens == {D350 \o <<"V", "0", "5", "0">>}

\* "9999" "4000NDV" "10SM" "11/2SM"
MainVisibilityTokens ==
  {<<"9", "9", "9", "9">>, <<"4", "0", "0", "0">> \o NDV,
   <<"1", "0">> \o SM, <<"1", "1", "/", "2">> \o SM}

\* "4000n"
MinimalVisibilityTokens == {<<"4", "0", "0", "0", "n">>}

\* "VV003"
VerticalVisibilityTokens == {<<"V", "V", "0", "0", "3">>}

\* "BKN020CB" "SCT" "FEW000" "OVC010XX" "XYZ"
CloudTokens ==
  {<<"B", "K", "N", "0", "2", "0", "C", "B">>, <<"S", "C", "T">>,
   <<"F", "E", "W", "0", "0", "0">>, <<"O", "V", "C", "0", "1", "0", "X", "X">>,
   <<"X", "Y", "Z">>}

\* "Q1013", a group of no known shape; "VRB020", which fits two shapes
OtherTokens == {<<"Q", "1", "0", "1", "3">>, VRB \o <<"0", "2", "0">>}

Tokens ==
  WindTokens \cup WindShearTokens \cup WindVariationTokens \cup MainVisibilityTokens
  \cup MinimalVisibilityTokens \cup VerticalVisibilityTokens \cup CloudTokens
  \cup OtherTokens

-----------------------------------------------------------------------------
(* The state machine: calls on one accumulator and one CommandSupplier *)

Init ==
  /\ container = EmptyContainer
  /\ commands = Commands
  /\ op = "new"
  /\ cmd = "undefined"
  /\ token = <<>>
  /\ result = "none"
  /\ calls = 0
  /\ varied = FALSE

\* History: whether a wind variation was applied since the last base wind.
NextVaried(name, r) ==
  IF r # "true" THEN varied
  ELSE IF name = "WindCommand" THEN FALSE
  ELSE IF name = "WindVariationCommand" THEN TRUE
  ELSE varied

\* One call command.execute(container, t) with outcome o.
Executed(name, t, o) ==
  /\ calls < MaxCalls
  /\ container' = o.container
  /\ result' = o.result
  /\ op' = "execute"
  /\ cmd' = name
  /\ token' = t
  /\ calls' = calls + 1
  /\ varied' = NextVaried(name, o.result)
  /\ UNCHANGED commands

ExecuteWindShear(t) == Executed("WindShearCommand", t, WindShearCommand_execute(container, t))

ExecuteWind(t) == Executed("WindCommand", t, WindCommand_execute(container, t))

ExecuteWindVariation(t) ==
  Executed("WindVariationCommand", t, WindVariationCommand_execute(container, t))

ExecuteMainVisibility(t) ==
  Executed("MainVisibilityCommand", t, MainVisibilityCommand_execute(container, t))

ExecuteNauticalMiles(t) ==
  Executed("MainVisibilityNauticalMilesCommand", t,
           MainVisibilityNauticalMilesCommand_execute(container, t))

ExecuteMinimalVisibility(t) ==
  Executed("MinimalVisibilityCommand", t, MinimalVisibilityCommand_execute(container, t))

ExecuteVerticalVisibility(t) ==
  Executed("VerticalVisibilityCommand", t, VerticalVisibilityCommand_execute(container, t))

ExecuteCloud(t) == Executed("CloudCommand", t, CloudCommand_execute(container, t))

\* One call supplier.get(t): cmd is the command returned.
Get(t) ==
  /\ calls < MaxCalls
  /\ op' = "get"
  /\ cmd' = get(commands, t)
  /\ token' = t
  /\ result' = "none"
  /\ calls' = calls + 1
  /\ UNCHANGED <<container, commands, varied>>

Next ==
  \E t \in Tokens :
    \/ Get(t)
    \/ ExecuteWindShear(t)
    \/ ExecuteWind(t)
    \/ ExecuteWindVariation(t)
    \/ ExecuteMainVisibility(t)
    \/ ExecuteNauticalMiles(t)
    \/ ExecuteMinimalVisibility(t)
    \/ ExecuteVerticalVisibility(t)
    \/ ExecuteCloud(t)

Spec == Init /\ [][Next]_vars

-----------------------------------------------------------------------------
(* A single call on a fresh accumulator, over a wider set of tokens *)

\* Base-wind groups: direction, speed, optional gust, optional unit.
WideWindTokens ==
  {d \o sp \o g \o u :
     d \in {VRB, D240, <<"0", "0", "0">>},
     sp \in {S15, S02, <<"0", "0">>},
     g \in {<<>>, G25, G10, <<"G", "0", "0">>},
     u \in {<<>>, KT, MPS, KMH}}

WideTokens == Tokens \cup WideWindTokens

\* The caller holds the token it is about to pass.
InitParse ==
  /\ container = EmptyContainer
  /\ commands = Commands
  /\ op = "input"
  /\ cmd = "undefined"
  /\ token \in WideTokens
  /\ result = "none"
  /\ calls = 0
  /\ varied = FALSE

NextParse ==
  /\ op = "input"
  /\ \/ Get(token)
     \/ ExecuteWindShear(token)
     \/ ExecuteWind(token)
     \/ ExecuteWindVariation(token)
     \/ ExecuteMainVisibility(token)
     \/ ExecuteNauticalMiles(token)
     \/ ExecuteMinimalVisibility(token)
     \/ ExecuteVerticalVisibility(token)
     \/ ExecuteCloud(token)

SpecParse == InitParse /\ [][NextParse]_vars

-----------------------------------------------------------------------------
(* Properties *)

\* The step just taken is a call of execute on the named command.
StepExecutes(name) == calls' = calls + 1 /\ op' = "execute" /\ cmd' = name

\* The state follows a call of execute on the named command.
AfterExecute(name) == op = "execute" /\ cmd = name

\* The priority order the dispatcher is to follow.
PriorityOrder ==
  <<"WindShearCommand", "WindCommand", "WindVariationCommand", "MainVisibilityCommand",
    "MainVisibilityNauticalMilesCommand", "MinimalVisibilityCommand",
    "VerticalVisibilityCommand", "CloudCommand">>

Claimants(t) == {i \in 1..Len(PriorityOrder) : canParse(PriorityOrder[i], t)}

\* C1: get(token) returns the first recognizer, in the order wind shear, base
\* wind, wind variation, metric visibility, statute-mile visibility, minimal
\* visibility, vertical visibility, cloud, whose canParse(token) is true, and
\* undefined exactly when none is; the order is the same on every call.
C1_FirstClaimantWins ==
  /\ commands = PriorityOrder
  /\ op = "get" =>
       IF Claimants(token) = {} THEN cmd = "undefined"
       ELSE /\ cmd # "undefined"
            /\ \E i \in Claimants(token) :
                 /\ cmd = PriorityOrder[i]
                 /\ \A j \in Claimants(token) : i <= j

\* C1 witness: get was called on "VRB020", which both the base-wind and the
\* cloud recognizer can parse, and returned the base-wind recognizer.
C1_Witness ==
  /\ op = "get"
  /\ token = VRB \o <<"0", "2", "0">>
  /\ Cardinality(Claimants(token)) = 2
  /\ cmd = "WindCommand"

\* The two groups of a token DDDVEEE.
IsVariationForm(t) ==
  Len(t) = 7 /\ AllIn(SubSeq(t, 1, 3), Digit) /\ t[4] = "V" /\ AllIn(SubSeq(t, 5, 7), Digit)

C2_Step ==
  (StepExecutes("WindVariationCommand") /\ IsVariationForm(token')) =>
    IF container.wind = None
    THEN result' = "InvalidWeatherStatementError"
    ELSE /\ result' = "true"
         /\ container'.wind # None
         /\ LET old == Val(container.wind)
                new == Val(container'.wind)
            IN /\ new.minVariation = Some(DecimalValue(SubSeq(token', 1, 3)))
               /\ new.maxVariation = Some(DecimalValue(SubSeq(token', 5, 7)))
               /\ new.speed = old.speed
               /\ new.degrees = old.degrees
               /\ new.gust = old.gust
               /\ new.unit = old.unit

\* C2: applying a wind-variation token DDDVEEE to an accumulator without a
\* wind raises InvalidWeatherStatementError; with a wind it succeeds and sets
\* minVariation = DDD and maxVariation = EEE on that wind, leaving its speed,
\* degrees, gust and unit as they were.
C2_VariationNeedsWind == [][C2_Step]_vars

\* C2 witness: "350V050" was applied to an accumulator holding a wind.
C2_Witness ==
  /\ AfterExecute("WindVariationCommand")
  /\ token = D350 \o <<"V", "0", "5", "0">>
  /\ result = "true"
  /\ container.wind # None
  /\ Val(container.wind).minVariation = Some(350)
  /\ Val(container.wind).maxVariation = Some(50)

IsMinimalVisibilityForm(t) == Len(t) = 5 /\ AllIn(SubSeq(t, 1, 4), Digit) /\ t[5] \in Lower

C3_Step ==
  (/\ StepExecutes("MinimalVisibilityCommand")
   /\ IsMinimalVisibilityForm(token')
   /\ container.visibility = None)
  => result' = "InvalidWeatherStatementError"

\* C3: applying a minimal-visibility token (4 digits and a lowercase letter)
\* to an accumulator without a main visibility raises
\* InvalidWeatherStatementError and no other kind of error.
C3_MinimalVisibilityNeedsMain == [][C3_Step]_vars

\* The part of a base-wind token after direction and speed: optional G and two
\* gust digits, then an optional unit, and nothing else.
WindTailGust(t) ==
  IF Len(t) >= 8 /\ t[6] = "G" /\ AllIn(SubSeq(t, 7, 8), Digit)
  THEN Some(SubSeq(t, 7, 8)) ELSE None

WindTailUnit(t) == SubSeq(t, IF WindTailGust(t) # None THEN 9 ELSE 6, Len(t))

IsBaseWindForm(t) ==
  /\ Len(t) >= 5
  /\ SubSeq(t, 1, 3) = VRB \/ AllIn(SubSeq(t, 1, 3), Digit)
  /\ AllIn(SubSeq(t, 4, 5), Digit)
  /\ WindTailUnit(t) \in {<<>>, KT, MPS, KMH}

\* C4: for a base-wind token (direction of 3 digits or VRB, 2-digit speed,
\* optional G and 2-digit gust, optional unit) the base-wind recognizer stores
\* a wind with degrees = the direction digits, absent for VRB; speed = the
\* speed digits; gust present, and equal to the gust digits, iff they were
\* supplied; unit = the unit given, KT when none is.
C4_BaseWindFields ==
  (AfterExecute("WindCommand") /\ IsBaseWindForm(token)) =>
    /\ result = "true"
    /\ container.wind # None
    /\ LET w == Val(container.wind) IN
       /\ w.degrees = IF SubSeq(token, 1, 3) = VRB THEN None
                      ELSE Some(DecimalValue(SubSeq(token, 1, 3)))
       /\ w.speed = DecimalValue(SubSeq(token, 4, 5))
       /\ w.gust = IF WindTailGust(token) = None THEN None
                   ELSE Some(DecimalValue(Val(WindTailGust(token))))
       /\ w.unit = IF WindTailUnit(token) = <<>> THEN KT ELSE WindTailUnit(token)

\* C4 witness: "VRB02" (no gust, no unit) was applied: degrees absent, speed 2,
\* gust absent, unit KT.
C4_Witness ==
  /\ AfterExecute("WindCommand")
  /\ token = VRB \o S02
  /\ container.wind # None
  /\ Val(container.wind).degrees = None
  /\ Val(container.wind).speed = 2
  /\ Val(container.wind).gust = None
  /\ Val(container.wind).unit = KT

\* A token shaped like a cloud group: three capital letters, then optionally
\* three digits, then optionally two or three capital letters.
CloudTail(t) == SubSeq(t, IF ClassAt(t, 4, 3, Digit) THEN 7 ELSE 4, Len(t))

IsCloudShaped(t) ==
  /\ Len(t) >= 3
  /\ AllIn(SubSeq(t, 1, 3), Upper)
  /\ CloudTail(t) = <<>> \/ (Len(CloudTail(t)) \in 2..3 /\ AllIn(CloudTail(t), Upper))

HasUnknownCoverage(t) == IsCloudShaped(t) /\ SubSeq(t, 1, 3) \notin CloudQuantity

HasKnownCoverage(t) == IsCloudShaped(t) /\ SubSeq(t, 1, 3) \in CloudQuantity

C5_Step ==
  /\ (calls' = calls + 1 /\ op' = "get" /\ HasUnknownCoverage(token')) =>
       /\ CloudCommand_canParse(token')
       /\ cmd' # "undefined"
       /\ cmd' = "CloudCommand" \/ \E i \in 1..7 : canParse(PriorityOrder[i], token')
       /\ container' = container
  /\ (StepExecutes("CloudCommand") /\ HasUnknownCoverage(token')) =>
       /\ result' = "false"
       /\ container' = container

IsWindShearForm(t) ==
  /\ Len(t) >= 11
  /\ SubSeq(t, 1, 2) = <<"W", "S">>
  /\ AllIn(SubSeq(t, 3, 5), Digit)
  /\ t[6] = "/"
  /\ IsBaseWindForm(SubSeq(t, 7, Len(t)))

\* C6: every wind-shear token (unit optional) is dispatched to the wind-shear
\* recognizer, which sets height = 100 * HHH and the wind fields by the base
\* wind's rule; the recognizer claims no token whose direction is neither
\* 3 digits nor VRB.
C6_WindShearGrammar ==
  /\ (op = "get" /\ IsWindShearForm(token)) => cmd = "WindShearCommand"
  /\ (AfterExecute("WindShearCommand") /\ IsWindShearForm(token)) =>
       /\ result = "true"
       /\ container.windShear # None
       /\ Val(container.windShear).height = 100 * DecimalValue(SubSeq(token, 3, 5))
  /\ (op = "get" /\ cmd = "WindShearCommand") =>
       (SubSeq(token, 7, 9) = VRB \/ AllIn(SubSeq(token, 7, 9), Digit))

\* The cloud a known-coverage cloud token stands for: its quantity and height.
ExpectedHeight(t) ==
  IF ClassAt(t, 4, 3, Digit) /\ DecimalValue(SubSeq(t, 4, 6)) # 0
  THEN Some(100 * DecimalValue(SubSeq(t, 4, 6)))
  ELSE None

C7_Step ==
  IF StepExecutes("CloudCommand") /\ HasKnownCoverage(token')
  THEN /\ Len(container'.clouds) = Len(container.clouds) + 1
       /\ SubSeq(container'.clouds, 1, Len(container.clouds)) = container.clouds
       /\ container'.clouds[Len(container'.clouds)].quantity = Some(SubSeq(token', 1, 3))
       /\ container'.clouds[Len(container'.clouds)].height = ExpectedHeight(token')
  ELSE container'.clouds = container.clouds

\* C7: the cloud list is append-only: a cloud token with a known coverage
\* code appends exactly one entry at the end (height = 100 * the 3-digit code,
\* absent when the code is zero or missing), earlier entries keep position
\* and contents, and no other call changes the list.
C7_CloudsAppendOnly == [][C7_Step]_vars

\* C7 witness: "BKN020CB" then "SCT" were applied: two entries in that order,
\* the second without height.
C7_Witness ==
  /\ AfterExecute("CloudCommand")
  /\ Len(container.clouds) = 2
  /\ container.clouds[1].quantity = Some(<<"B", "K", "N">>)
  /\ container.clouds[1].height = Some(2000)
  /\ container.clouds[2].quantity = Some(<<"S", "C", "T">>)
  /\ container.clouds[2].height = None

WindInRange(w) ==
  /\ w.gust # None => Val(w.gust) >= w.speed
  /\ w.degrees # None => Val(w.degrees) \in 0..360

\* C8: any stored wind (base wind or wind shear) whose gust is present has
\* gust >= speed, and any stored degrees value lies in 0..360.
C8_WindInRange ==
  /\ container.wind # None => WindInRange(Val(container.wind))
  /\ container.windShear # None => WindInRange(Val(container.windShear))

C9_Step ==
  (calls' = calls + 1 /\ op' = "execute" /\ result' # "true") => container' = container

\* C9: whenever execute of any recognizer raises an error or returns false,
\* the accumulator is exactly as it was before the call.
C9_FailureLeavesAccumulator == [][C9_Step]_vars

\* C9 witness: the minimal-visibility recognizer raised an error on an
\* accumulator that already holds a wind and a cloud layer.
C9_Witness ==
  /\ AfterExecute("MinimalVisibilityCommand")
  /\ result = "UnexpectedParseError"
  /\ container.wind # None
  /\ Len(container.clouds) = 1
  /\ container.visibility = None

C10_State ==
  IF container.wind = None THEN ~varied
  ELSE /\ Val(container.wind).minVariation = None <=> Val(container.wind).maxVariation = None
       /\ Val(container.wind).minVariation # None <=> varied

C10_Step ==
  /\ (StepExecutes("WindCommand") /\ result' = "true") =>
       /\ Val(container'.wind).minVariation = None
       /\ Val(container'.wind).maxVariation = None
  /\ (/\ StepExecutes("MainVisibilityCommand")
         \/ StepExecutes("MainVisibilityNauticalMilesCommand")
      /\ result' = "true"
      /\ container.visibility # None) =>
       /\ Val(container'.visibility).minDistance = Val(container.visibility).minDistance
       /\ Val(container'.visibility).minDirection = Val(container.visibility).minDirection

\* C10: minVariation and maxVariation are both present or both absent, and
\* present iff a wind-variation token was applied successfully after the most
\* recent base-wind token (a base-wind token replaces the whole wind), whereas
\* a main-visibility token applied to an existing visibility overwrites only
\* distance and keeps minDistance and minDirection.
C10_VariationFollowsWind == []C10_State /\ [][C10_Step]_vars

\* C10 witness: a main-visibility token was applied to a visibility that
\* already carried the minimal visibility of "4000n", which it kept.
C10_Witness ==
  /\ op = "execute"
  /\ cmd \in {"MainVisibilityCommand", "MainVisibilityNauticalMilesCommand"}
  /\ result = "true"
  /\ calls = 3
  /\ Val(container.visibility).minDistance = Some(4000)
  /\ Val(container.visibility).minDirection = Some("n")

====
